---- MODULE Spec2Model ----
(***************************************************************************)
(* Model of the blog backend (src/src/supabase/functions/server/index.tsx):*)
(* the article and comment handlers over the key-value store, and the      *)
(* authorization gate verifyAuth.  Every handler is cut at its store calls *)
(* (its awaits on the kv module): one action runs the handler's code up to *)
(* and including one store call,                                           *)
(* so the interleavings of two requests are the interleavings of their     *)
(* store calls.                                                            *)
(***************************************************************************)
EXTENDS Integers, Sequences, FiniteSets, TLC

VARIABLES
    kv,      \* the key-value store: a function from the keys it holds
    kv0,     \* the store as the run found it
    now,     \* the latest time a request has read from the clock
    nextId,  \* the next identifier crypto.randomUUID() hands out
    slot     \* per request: where it stands, what it read, its answer

vars == <<kv, kv0, now, nextId, slot>>

(***************************************************************************)
(* Bounds of the model.                                                    *)
(***************************************************************************)
\* Latest clock value (milliseconds) a request reads.
MaxClock == 2

\* The requests of a run, p1 the one that arrives first.  They may overlap:
\* each is in flight from its arrival to its answer.
Procs == {"p1", "p2"}
Other(p) == IF p = "p1" THEN "p2" ELSE "p1"

NoId == 0

(***************************************************************************)
(* JSON values.  A text is a sequence of one-character strings; undefined  *)
(* and null are two values that are no text.                               *)
(***************************************************************************)
Undefined == <<"#undefined">>
Null == <<"#null">>
EmptyText == <<>>

\* JavaScript truthiness of a text-or-missing value (the `!x` and `x || y` tests).
Truthy(v) == v \notin {Undefined, Null, EmptyText}

\* a ?? b
Coalesce(a, b) == IF a \in {Undefined, Null} THEN b ELSE a

\* Destructuring a field of a parsed JSON object: a missing field is undefined.
Field(json, f) == IF f \in DOMAIN json THEN json[f] ELSE Undefined

\* Substring0 with no cut.
Substring0_Whole(s, n) == s

\* String.prototype.substring(0, n)
Substring0(s, n) == IF Len(s) <= n THEN s ELSE SubSeq(s, 1, n)

Ellipsis == <<".", ".", ".">>
ExcerptLen == 150

\* new Date().toISOString() and new Date(iso).getTime(): the ISO text of a
\* millisecond count, and the millisecond count read back from it.
ToISOString(t) == [iso |-> t]
GetTime(s) == s.iso

\* The times a clock read may return: the clock never runs backwards.
ClockReads(t) == t..MaxClock

(***************************************************************************)
(* The key-value store (kv.get, kv.set, kv.del, kv.mdel, kv.getByPrefix).  *)
(* A key is the sequence of the parts its template joins with ":".         *)
(***************************************************************************)
ArticleKey(id) == <<"article", id>>
CommentKey(articleId, commentId) == <<"comment", articleId, commentId>>
ArticlePrefix == <<"article">>
\* CommentPrefix without the article id.
CommentPrefix_All(articleId) == <<"comment">>
CommentPrefix(articleId) == <<"comment", articleId>>

HasPrefix(key, prefix) ==
    /\ Len(prefix) <= Len(key)
    /\ SubSeq(key, 1, Len(prefix)) = prefix

KvHas(store, key) == key \in DOMAIN store
KvGet(store, key) == store[key]
KvSet(store, key, value) ==
    [k \in DOMAIN store \cup {key} |-> IF k = key THEN value ELSE store[k]]
KvDel(store, key) == [k \in DOMAIN store \ {key} |-> store[k]]
KvMdel(store, keys) ==
    [k \in DOMAIN store \ {keys[i] : i \in DOMAIN keys} |-> store[k]]

PrefixKeys(store, prefix) == {k \in DOMAIN store : HasPrefix(k, prefix)}

\* Every order in which a set can be listed.
Orders(S) ==
    {f \in [1..Cardinality(S) -> S] : \A i, j \in DOMAIN f : i # j => f[i] # f[j]}

\* kv.getByPrefix: the (key, value) pairs under the prefix, in an order the
\* store chooses.
KvGetByPrefix(store, prefix) ==
    {[i \in DOMAIN o |-> [key |-> o[i], value |-> store[o[i]]]] :
        o \in Orders(PrefixKeys(store, prefix))}

(***************************************************************************)
(* Array.prototype.sort with the comparator                                *)
(*   dir * (getTime(a.createdAt) - getTime(b.createdAt)):                  *)
(* a stable sort, so values the comparator calls equal keep their order.   *)
(***************************************************************************)
CompareCreatedAt(a, b, dir) == dir * (GetTime(a.createdAt) - GetTime(b.createdAt))

RECURSIVE InsertStable(_, _, _)
InsertStable(sorted, x, dir) ==
    IF sorted = <<>> THEN <<x>>
    ELSE IF CompareCreatedAt(sorted[Len(sorted)], x, dir) <= 0
         THEN Append(sorted, x)
         ELSE Append(InsertStable(SubSeq(sorted, 1, Len(sorted) - 1), x, dir),
                     sorted[Len(sorted)])

RECURSIVE SortByCreatedAt(_, _)
SortByCreatedAt(values, dir) ==
    IF values = <<>> THEN <<>>
    ELSE InsertStable(SortByCreatedAt(SubSeq(values, 1, Len(values) - 1), dir),
                      values[Len(values)], dir)

Values(pairs) == [i \in DOMAIN pairs |-> pairs[i].value]
Keys(pairs) == [i \in DOMAIN pairs |-> pairs[i].key]

\* SortArticles with the comparator's operands exchanged.
SortArticles_Ascending(pairs) == SortByCreatedAt(Values(pairs), 1)

\* GET /articles: newest first.
SortArticles(pairs) == SortByCreatedAt(Values(pairs), -1)
\* GET /comments/:articleId: oldest first.
SortComments(pairs) == SortByCreatedAt(Values(pairs), 1)

(***************************************************************************)
(* The authorization gate.                                                 *)
(***************************************************************************)
\* An Authorization header: absent, or the parts split(' ') cuts it into.
NoHeader == [present |-> FALSE, parts |-> <<>>]
Header(parts) == [present |-> TRUE, parts |-> parts]

\* The identity provider's answer to supabase.auth.getUser(token).
GetUser(token) ==
    CASE token = <<"t1">> -> [error |-> FALSE, userId |-> <<"alice">>]
      [] token = <<"t2">> -> [error |-> FALSE, userId |-> <<"bob">>]
      [] token = <<"noid">> -> [error |-> FALSE, userId |-> Undefined]
      [] OTHER -> [error |-> TRUE, userId |-> Undefined]

\* request.headers.get('Authorization')?.split(' ')[1]
AccessToken(header) ==
    IF header.present /\ Len(header.parts) >= 2 THEN header.parts[2] ELSE Undefined

\* VerifyAuth taking any token for an identity, the provider not asked.
VerifyAuth_AnyToken(header) ==
    IF ~Truthy(AccessToken(header)) THEN Null ELSE AccessToken(header)

\* verifyAuth: the user id, or Null.
VerifyAuth(header) ==
    LET accessToken == AccessToken(header) IN
    IF ~Truthy(accessToken) THEN Null
    ELSE LET answer == GetUser(accessToken) IN
         IF answer.error \/ ~Truthy(answer.userId) THEN Null ELSE answer.userId

(***************************************************************************)
(* The records the handlers build.                                         *)
(***************************************************************************)
\* NewArticle with the creation time for id.
NewArticle_IdFromClock(id, userId, json, createdAt, updatedAt) ==
    [id |-> createdAt,
     title |-> Field(json, "title"),
     content |-> Field(json, "content"),
     excerpt |-> IF Truthy(Field(json, "excerpt")) THEN Field(json, "excerpt")
                 ELSE Substring0(Field(json, "content"), ExcerptLen) \o Ellipsis,
     imageUrl |-> IF Truthy(Field(json, "imageUrl")) THEN Field(json, "imageUrl") ELSE Null,
     videoUrl |-> IF Truthy(Field(json, "videoUrl")) THEN Field(json, "videoUrl") ELSE Null,
     audioUrl |-> IF Truthy(Field(json, "audioUrl")) THEN Field(json, "audioUrl") ELSE Null,
     authorId |-> userId,
     createdAt |-> ToISOString(createdAt),
     updatedAt |-> ToISOString(updatedAt)]

\* POST /articles: the article stored for a valid body.
NewArticle(id, userId, json, createdAt, updatedAt) ==
    LET title == Field(json, "title")
        content == Field(json, "content")
        excerpt == Field(json, "excerpt")
        imageUrl == Field(json, "imageUrl")
        videoUrl == Field(json, "videoUrl")
        audioUrl == Field(json, "audioUrl")
    IN  [id |-> id,
         title |-> title,
         content |-> content,
         excerpt |-> IF Truthy(excerpt) THEN excerpt
                     ELSE Substring0(content, ExcerptLen) \o Ellipsis,
         imageUrl |-> IF Truthy(imageUrl) THEN imageUrl ELSE Null,
         videoUrl |-> IF Truthy(videoUrl) THEN videoUrl ELSE Null,
         audioUrl |-> IF Truthy(audioUrl) THEN audioUrl ELSE Null,
         authorId |-> userId,
         createdAt |-> ToISOString(createdAt),
         updatedAt |-> ToISOString(updatedAt)]

\* CreateArticleValid testing the title only.
CreateArticleValid_TitleOnly(json) ==
    Truthy(Field(json, "title"))

\* POST /articles: `!title || !content` is the rejection.
CreateArticleValid(json) ==
    Truthy(Field(json, "title")) /\ Truthy(Field(json, "content"))

\* UpdatedArticle taking the content from the body with no fallback.
UpdatedArticle_NoFallback(existingArticle, json, updatedAt) ==
    [existingArticle EXCEPT
        !.title = Coalesce(Field(json, "title"), existingArticle.title),
        !.content = Field(json, "content"),
        !.excerpt = Coalesce(Field(json, "excerpt"), existingArticle.excerpt),
        !.imageUrl = IF Field(json, "imageUrl") # Undefined
                     THEN Field(json, "imageUrl") ELSE existingArticle.imageUrl,
        !.videoUrl = IF Field(json, "videoUrl") # Undefined
                     THEN Field(json, "videoUrl") ELSE existingArticle.videoUrl,
        !.audioUrl = IF Field(json, "audioUrl") # Undefined
                     THEN Field(json, "audioUrl") ELSE existingArticle.audioUrl,
        !.updatedAt = ToISOString(updatedAt)]

\* UpdatedArticle spreading the whole body over the stored article.
UpdatedArticle_SpreadBody(existingArticle, json, updatedAt) ==
    [existingArticle EXCEPT
        !.id = IF "id" \in DOMAIN json THEN json.id ELSE @,
        !.authorId = IF "authorId" \in DOMAIN json THEN json.authorId ELSE @,
        !.createdAt = IF "createdAt" \in DOMAIN json THEN json.createdAt ELSE @,
        !.title = Coalesce(Field(json, "title"), existingArticle.title),
        !.content = Coalesce(Field(json, "content"), existingArticle.content),
        !.excerpt = Coalesce(Field(json, "excerpt"), existingArticle.excerpt),
        !.imageUrl = IF Field(json, "imageUrl") # Undefined
                     THEN Field(json, "imageUrl") ELSE existingArticle.imageUrl,
        !.videoUrl = IF Field(json, "videoUrl") # Undefined
                     THEN Field(json, "videoUrl") ELSE existingArticle.videoUrl,
        !.audioUrl = IF Field(json, "audioUrl") # Undefined
                     THEN Field(json, "audioUrl") ELSE existingArticle.audioUrl,
        !.updatedAt = ToISOString(updatedAt)]

\* UpdatedArticle with ?? on the media fields too.
UpdatedArticle_MediaCoalesce(existingArticle, json, updatedAt) ==
    [existingArticle EXCEPT
        !.title = Coalesce(Field(json, "title"), existingArticle.title),
        !.content = Coalesce(Field(json, "content"), existingArticle.content),
        !.excerpt = Coalesce(Field(json, "excerpt"), existingArticle.excerpt),
        !.imageUrl = Coalesce(Field(json, "imageUrl"), existingArticle.imageUrl),
        !.videoUrl = Coalesce(Field(json, "videoUrl"), existingArticle.videoUrl),
        !.audioUrl = Coalesce(Field(json, "audioUrl"), existingArticle.audioUrl),
        !.updatedAt = ToISOString(updatedAt)]

\* PUT /articles/:id: the stored article merged with the body.
UpdatedArticle(existingArticle, json, updatedAt) ==
    LET title == Field(json, "title")
        content == Field(json, "content")
        excerpt == Field(json, "excerpt")
        imageUrl == Field(json, "imageUrl")
        videoUrl == Field(json, "videoUrl")
        audioUrl == Field(json, "audioUrl")
    IN  [existingArticle EXCEPT
            !.title = Coalesce(title, existingArticle.title),
            !.content = Coalesce(content, existingArticle.content),
            !.excerpt = Coalesce(excerpt, existingArticle.excerpt),
            !.imageUrl = IF imageUrl # Undefined THEN imageUrl ELSE existingArticle.imageUrl,
            !.videoUrl = IF videoUrl # Undefined THEN videoUrl ELSE existingArticle.videoUrl,
            !.audioUrl = IF audioUrl # Undefined THEN audioUrl ELSE existingArticle.audioUrl,
            !.updatedAt = ToISOString(updatedAt)]

\* POST /comments/:articleId: the comment stored for a valid body.
NewComment(commentId, articleId, json, createdAt) ==
    [id |-> commentId,
     articleId |-> articleId,
     name |-> Field(json, "name"),
     content |-> Field(json, "content"),
     createdAt |-> ToISOString(createdAt)]

\* CreateCommentValid testing the name only.
CreateCommentValid_NameOnly(json) ==
    Truthy(Field(json, "name"))

\* POST /comments/:articleId: `!name || !content` is the rejection.
CreateCommentValid(json) ==
    Truthy(Field(json, "name")) /\ Truthy(Field(json, "content"))

(***************************************************************************)
(* Requests: the headers, path parameters and bodies the handlers are run  *)
(* on.                                                                     *)
(***************************************************************************)
AuthHeaders ==
    { NoHeader,
      Header(<<"Bearer">>),
      Header(<<"Bearer", <<"bad">>>>),
      Header(<<"Bearer", <<"noid">>>>),
      Header(<<"Bearer", <<"t1">>>>),
      Header(<<"Bearer", <<"t2">>>>) }

\* Create comment reads no header: none, one the gate rejects, one it accepts.
CommentHeaders ==
    { NoHeader, Header(<<"Bearer", <<"bad">>>>), Header(<<"Bearer", <<"t1">>>>) }

\* A request body: JSON text c.req.json() parses, or text it throws on (an
\* empty body is such a text).
Malformed == [ok |-> FALSE, json |-> <<>>]
Json(object) == [ok |-> TRUE, json |-> object]

HelloWorld == <<"h", "e", "l", "l", "o", " ", "w", "o", "r", "l", "d">>
LongText == [i \in 1..(ExcerptLen + 1) |-> "x"]

PlainArticle == [title |-> <<"A">>, content |-> HelloWorld]
FullArticle ==
    [title |-> <<"F">>, content |-> HelloWorld, excerpt |-> <<"E">>,
     imageUrl |-> <<"img">>, videoUrl |-> <<"vid">>, audioUrl |-> <<"aud">>]
PlainComment == [name |-> <<"N">>, content |-> <<"hi">>]

CreateBodies ==
    { Json(PlainArticle),
      Json(FullArticle),
      Json([title |-> <<"L">>, content |-> LongText, excerpt |-> EmptyText]),
      Json([title |-> EmptyText, content |-> HelloWorld]),
      Json([title |-> <<"A">>]),
      Malformed }

UpdateBodies ==
    { Json([title |-> <<"B">>]),
      Json([content |-> <<"c">>]),
      Json([title |-> EmptyText]),
      Json([title |-> Null, imageUrl |-> Null]),
      Json([videoUrl |-> EmptyText]),
      Json([audioUrl |-> <<"aud2">>]),
      Json([id |-> NoId, authorId |-> <<"mallory">>, createdAt |-> ToISOString(MaxClock)]),
      Malformed }

CommentBodies ==
    { Json(PlainComment),
      Json([name |-> EmptyText, content |-> <<"hi">>]),
      Json([name |-> <<"N">>]),
      Malformed }

(***************************************************************************)
(* The stores a run can find: the empty one, and one that earlier requests *)
(* built (two articles created at the same millisecond, two comments on    *)
(* the first and one on the second).                                       *)
(***************************************************************************)
EmptyStore == <<>>

BuiltStore ==
    LET s1 == KvSet(EmptyStore, ArticleKey(1),
                    NewArticle(1, <<"alice">>, PlainArticle, 0, 0))
        s2 == KvSet(s1, ArticleKey(2), NewArticle(2, <<"bob">>, FullArticle, 0, 0))
        s3 == KvSet(s2, CommentKey(1, 3), NewComment(3, 1, PlainComment, 0))
        s4 == KvSet(s3, CommentKey(1, 4), NewComment(4, 1, PlainComment, 1))
    IN  KvSet(s4, CommentKey(2, 5), NewComment(5, 2, PlainComment, 1))

\* A found store, with the clock and the identifier count it was left with.
Starts ==
    { [store |-> EmptyStore, now |-> 0, nextId |-> 1],
      [store |-> BuiltStore, now |-> 1, nextId |-> 6] }

\* Identifiers a request path can carry: the two articles' and the next one
\* handed out after the built store; a comment of each article.
ArticlePathIds == {1, 2, 6}
CommentPathIds == {3, 5}

(***************************************************************************)
(* Responses and request slots.                                            *)
(***************************************************************************)
Ok == 200
ValidationFailed == 400
Unauthorized == 401
NotFound == 404
ServerError == 500

NoRecord == [none |-> TRUE]

\* A slot holds one request: where it stands (pc: idle before it arrives,
\* done once answered), what it was sent with, what it has read, its store
\* calls so far, whether one of its write calls (set, del, mdel) completed
\* (wrote), its answer (status, out), the store at its arrival and at its
\* answer (before, after), whether the other request took no step while it
\* was in flight (alone), and whether the other request was in flight for
\* the same article beside it (overlap).
Idle ==
    [pc |-> "idle", op |-> "none", hdr |-> NoHeader, id |-> NoId, cid |-> NoId,
     body |-> Malformed, existing |-> NoRecord, keys |-> <<>>, calls |-> <<>>,
     wrote |-> FALSE, status |-> 0, out |-> <<>>,
     before |-> <<>>, after |-> <<>>, alone |-> TRUE, overlap |-> FALSE]

InFlight(p) == slot[p].pc \notin {"idle", "done"}
Done(p) == slot[p].pc = "done"

\* p1 is the request that arrives first.
CanArrive(p) ==
    /\ slot[p].pc = "idle"
    /\ p = "p2" => slot["p1"].pc # "idle"

\* The request as it arrives at slot p.
Arrive(p, op, hdr, id, cid, body) ==
    [Idle EXCEPT !.op = op, !.hdr = hdr, !.id = id, !.cid = cid, !.body = body,
                 !.before = kv,
                 !.alone = ~InFlight(Other(p)),
                 !.overlap = InFlight(Other(p)) /\ slot[Other(p)].id = id /\ id # NoId]

Called(s, call) == [s EXCEPT !.calls = Append(@, call)]
Wrote(s, call) == [s EXCEPT !.calls = Append(@, call), !.wrote = TRUE]

\* The other slot after a step of the request s: a request in flight was not
\* alone, and one for the same article has had company.
Met(q, s) ==
    IF InFlight(q)
    THEN [slot[q] EXCEPT !.alone = FALSE,
                         !.overlap = @ \/ (slot[q].id = s.id /\ s.id # NoId)]
    ELSE slot[q]

\* The request s of slot p goes on to its next store call.
Continue(p, s, pc) ==
    slot' = [slot EXCEPT ![p] = [s EXCEPT !.pc = pc], ![Other(p)] = Met(Other(p), s)]

\* The request s of slot p is answered (the step's store is kv').
Respond(p, s, status, out) ==
    slot' = [slot EXCEPT
                ![p] = [s EXCEPT !.pc = "done", !.status = status, !.out = out,
                                 !.after = kv'],
                ![Other(p)] = Met(Other(p), s)]

(***************************************************************************)
(* Init: the store as found, no request arrived.                           *)
(***************************************************************************)
Init ==
    \E start \in Starts :
        /\ kv = start.store
        /\ kv0 = start.store
        /\ now = start.now
        /\ nextId = start.nextId
        /\ slot = [p \in Procs |-> Idle]

(***************************************************************************)
(* GET /articles                                                           *)
(***************************************************************************)
ListArticles(p) ==
    LET s == Called(Arrive(p, "listArticles", NoHeader, NoId, NoId, Malformed),
                    "getByPrefix") IN
    /\ CanArrive(p)
    /\ UNCHANGED <<kv, kv0, now, nextId>>
    /\ \/ \E articles \in KvGetByPrefix(kv, ArticlePrefix) :
            Respond(p, s, Ok, SortArticles(articles))
       \/ Respond(p, s, ServerError, <<>>)

(***************************************************************************)
(* GET /articles/:id                                                       *)
(***************************************************************************)
GetArticle(p, id) ==
    LET s == Called(Arrive(p, "getArticle", NoHeader, id, NoId, Malformed), "get") IN
    /\ CanArrive(p)
    /\ UNCHANGED <<kv, kv0, now, nextId>>
    /\ \/ /\ KvHas(kv, ArticleKey(id))
          /\ Respond(p, s, Ok, <<KvGet(kv, ArticleKey(id))>>)
       \/ /\ ~KvHas(kv, ArticleKey(id))
          /\ Respond(p, s, NotFound, <<>>)
       \/ Respond(p, s, ServerError, <<>>)

(***************************************************************************)
(* POST /articles                                                          *)
(***************************************************************************)
\* verifyAuth, c.req.json(), the validation, crypto.randomUUID(), the two
\* clock reads, then kv.set of the article.
CreateArticle(p, hdr, body) ==
    LET s == Arrive(p, "createArticle", hdr, NoId, NoId, body)
        userId == VerifyAuth(hdr)
    IN  /\ CanArrive(p)
        /\ \/ /\ userId = Null
              /\ UNCHANGED <<kv, now, nextId>>
              /\ Respond(p, s, Unauthorized, <<>>)
           \/ /\ userId # Null
              /\ ~body.ok
              /\ UNCHANGED <<kv, now, nextId>>
              /\ Respond(p, s, ServerError, <<>>)
           \/ /\ userId # Null
              /\ body.ok
              /\ ~CreateArticleValid(body.json)
              /\ UNCHANGED <<kv, now, nextId>>
              /\ Respond(p, s, ValidationFailed, <<>>)
           \/ /\ userId # Null
              /\ body.ok
              /\ CreateArticleValid(body.json)
              /\ \E t1 \in ClockReads(now) : \E t2 \in ClockReads(t1) :
                    LET article == NewArticle(nextId, userId, body.json, t1, t2) IN
                    /\ now' = t2
                    /\ nextId' = nextId + 1
                    /\ \/ /\ kv' = KvSet(kv, ArticleKey(nextId), article)
                          /\ Respond(p, Wrote(s, "set"), Ok, <<article>>)
                       \/ /\ kv' = kv
                          /\ Respond(p, Called(s, "set"), ServerError, <<>>)
        /\ UNCHANGED kv0

(***************************************************************************)
(* PUT /articles/:id                                                       *)
(***************************************************************************)
\* UpdateArticleGet refusing a caller who is not the article's author.
UpdateArticleGet_OwnerOnly(p, hdr, id) ==
    LET s == Arrive(p, "updateArticle", hdr, id, NoId, Malformed) IN
    /\ CanArrive(p)
    /\ UNCHANGED <<kv, kv0, now, nextId>>
    /\ \/ /\ VerifyAuth(hdr) = Null
          /\ Respond(p, s, Unauthorized, <<>>)
       \/ /\ VerifyAuth(hdr) # Null
          /\ \/ Respond(p, Called(s, "get"), ServerError, <<>>)
             \/ /\ ~KvHas(kv, ArticleKey(id))
                /\ Respond(p, Called(s, "get"), NotFound, <<>>)
             \/ /\ KvHas(kv, ArticleKey(id))
                /\ KvGet(kv, ArticleKey(id)).authorId # VerifyAuth(hdr)
                /\ Respond(p, Called(s, "get"), Unauthorized, <<>>)
             \/ /\ KvHas(kv, ArticleKey(id))
                /\ KvGet(kv, ArticleKey(id)).authorId = VerifyAuth(hdr)
                /\ Continue(p, [Called(s, "get") EXCEPT
                                   !.existing = KvGet(kv, ArticleKey(id))],
                            "updateSet")

\* verifyAuth, then kv.get of the article.
UpdateArticleGet(p, hdr, id) ==
    LET s == Arrive(p, "updateArticle", hdr, id, NoId, Malformed) IN
    /\ CanArrive(p)
    /\ UNCHANGED <<kv, kv0, now, nextId>>
    /\ \/ /\ VerifyAuth(hdr) = Null
          /\ Respond(p, s, Unauthorized, <<>>)
       \/ /\ VerifyAuth(hdr) # Null
          /\ \/ Respond(p, Called(s, "get"), ServerError, <<>>)
             \/ /\ ~KvHas(kv, ArticleKey(id))
                /\ Respond(p, Called(s, "get"), NotFound, <<>>)
             \/ /\ KvHas(kv, ArticleKey(id))
                /\ Continue(p, [Called(s, "get") EXCEPT
                                   !.existing = KvGet(kv, ArticleKey(id))],
                            "updateSet")

\* c.req.json(), the merge, the clock read, then kv.set of the article.  The
\* body is drawn here, where the handler first reads it.
UpdateArticleSet(p, body) ==
    LET s == [slot[p] EXCEPT !.body = body] IN
    /\ s.pc = "updateSet"
    /\ \/ /\ ~body.ok
          /\ UNCHANGED <<kv, now>>
          /\ Respond(p, s, ServerError, <<>>)
       \/ /\ body.ok
          /\ \E t \in ClockReads(now) :
                LET updatedArticle == UpdatedArticle(s.existing, body.json, t) IN
                /\ now' = t
                /\ \/ /\ kv' = KvSet(kv, ArticleKey(s.id), updatedArticle)
                      /\ Respond(p, Wrote(s, "set"), Ok, <<updatedArticle>>)
                   \/ /\ kv' = kv
                      /\ Respond(p, Called(s, "set"), ServerError, <<>>)
    /\ UNCHANGED <<kv0, nextId>>

(***************************************************************************)
(* DELETE /articles/:id                                                    *)
(***************************************************************************)
\* DeleteArticleGet looking the article up before the gate.
DeleteArticleGet_LookupFirst(p, hdr, id) ==
    LET s == Arrive(p, "deleteArticle", hdr, id, NoId, Malformed) IN
    /\ CanArrive(p)
    /\ UNCHANGED <<kv, kv0, now, nextId>>
    /\ \/ Respond(p, Called(s, "get"), ServerError, <<>>)
       \/ /\ ~KvHas(kv, ArticleKey(id))
          /\ Respond(p, Called(s, "get"), NotFound, <<>>)
       \/ /\ KvHas(kv, ArticleKey(id))
          /\ VerifyAuth(hdr) = Null
          /\ Respond(p, Called(s, "get"), Unauthorized, <<>>)
       \/ /\ KvHas(kv, ArticleKey(id))
          /\ VerifyAuth(hdr) # Null
          /\ Continue(p, Called(s, "get"), "deleteDel")

\* verifyAuth, then kv.get of the article.
DeleteArticleGet(p, hdr, id) ==
    LET s == Arrive(p, "deleteArticle", hdr, id, NoId, Malformed) IN
    /\ CanArrive(p)
    /\ UNCHANGED <<kv, kv0, now, nextId>>
    /\ \/ /\ VerifyAuth(hdr) = Null
          /\ Respond(p, s, Unauthorized, <<>>)
       \/ /\ VerifyAuth(hdr) # Null
          /\ \/ Respond(p, Called(s, "get"), ServerError, <<>>)
             \/ /\ ~KvHas(kv, ArticleKey(id))
                /\ Respond(p, Called(s, "get"), NotFound, <<>>)
             \/ /\ KvHas(kv, ArticleKey(id))
                /\ Continue(p, Called(s, "get"), "deleteDel")

\* DeleteArticleDel removing the comments at this step and the article not.
DeleteArticleDel_CommentsFirst(p) ==
    LET s == slot[p] IN
    /\ s.pc = "deleteDel"
    /\ \/ /\ kv' = [k \in DOMAIN kv \ PrefixKeys(kv, CommentPrefix(s.id)) |-> kv[k]]
          /\ Continue(p, Wrote(s, "mdel"), "deleteScan")
       \/ /\ kv' = kv
          /\ Respond(p, Called(s, "del"), ServerError, <<>>)
    /\ UNCHANGED <<kv0, now, nextId>>

\* kv.del of the article key.
DeleteArticleDel(p) ==
    LET s == slot[p] IN
    /\ s.pc = "deleteDel"
    /\ \/ /\ kv' = KvDel(kv, ArticleKey(s.id))
          /\ Continue(p, Wrote(s, "del"), "deleteScan")
       \/ /\ kv' = kv
          /\ Respond(p, Called(s, "del"), ServerError, <<>>)
    /\ UNCHANGED <<kv0, now, nextId>>

\* DeleteArticleScan under a prefix no comment key starts with.
DeleteArticleScan_WrongPrefix(p) ==
    LET s == slot[p] IN
    /\ s.pc = "deleteScan"
    /\ UNCHANGED <<kv, kv0, now, nextId>>
    /\ \/ \E comments \in KvGetByPrefix(kv, <<"comments", s.id>>) :
            LET commentKeys == Keys(comments) IN
            \/ /\ Len(commentKeys) > 0
               /\ Continue(p, [Called(s, "getByPrefix") EXCEPT !.keys = commentKeys],
                           "deleteMdel")
            \/ /\ Len(commentKeys) = 0
               /\ Respond(p, Called(s, "getByPrefix"), Ok, <<>>)
       \/ Respond(p, Called(s, "getByPrefix"), ServerError, <<>>)

\* DeleteArticleScan under the prefix of every comment.
DeleteArticleScan_AllComments(p) ==
    LET s == slot[p] IN
    /\ s.pc = "deleteScan"
    /\ UNCHANGED <<kv, kv0, now, nextId>>
    /\ \/ \E comments \in KvGetByPrefix(kv, <<"comment">>) :
            LET commentKeys == Keys(comments) IN
            \/ /\ Len(commentKeys) > 0
               /\ Continue(p, [Called(s, "getByPrefix") EXCEPT !.keys = commentKeys],
                           "deleteMdel")
            \/ /\ Len(commentKeys) = 0
               /\ Respond(p, Called(s, "getByPrefix"), Ok, <<>>)
       \/ Respond(p, Called(s, "getByPrefix"), ServerError, <<>>)

\* kv.getByPrefix of the article's comments; with no comment, the answer.
DeleteArticleScan(p) ==
    LET s == slot[p] IN
    /\ s.pc = "deleteScan"
    /\ UNCHANGED <<kv, kv0, now, nextId>>
    /\ \/ \E comments \in KvGetByPrefix(kv, CommentPrefix(s.id)) :
            LET commentKeys == Keys(comments) IN
            \/ /\ Len(commentKeys) > 0
               /\ Continue(p, [Called(s, "getByPrefix") EXCEPT !.keys = commentKeys],
                           "deleteMdel")
            \/ /\ Len(commentKeys) = 0
               /\ Respond(p, Called(s, "getByPrefix"), Ok, <<>>)
       \/ Respond(p, Called(s, "getByPrefix"), ServerError, <<>>)

\* DeleteArticleMdel deleting the first scanned key only.
DeleteArticleMdel_First(p) ==
    LET s == slot[p] IN
    /\ s.pc = "deleteMdel"
    /\ \/ /\ kv' = KvDel(kv, s.keys[1])
          /\ Respond(p, Wrote(s, "mdel"), Ok, <<>>)
       \/ /\ kv' = kv
          /\ Respond(p, Called(s, "mdel"), ServerError, <<>>)
    /\ UNCHANGED <<kv0, now, nextId>>

\* kv.mdel of the comment keys, then the answer.
DeleteArticleMdel(p) ==
    LET s == slot[p] IN
    /\ s.pc = "deleteMdel"
    /\ \/ /\ kv' = KvMdel(kv, s.keys)
          /\ Respond(p, Wrote(s, "mdel"), Ok, <<>>)
       \/ /\ kv' = kv
          /\ Respond(p, Called(s, "mdel"), ServerError, <<>>)
    /\ UNCHANGED <<kv0, now, nextId>>

(***************************************************************************)
(* GET /comments/:articleId                                                *)
(***************************************************************************)
\* ListComments answering 404 for an id with no article.
ListComments_CheckArticle(p, id) ==
    LET s == Called(Arrive(p, "listComments", NoHeader, id, NoId, Malformed),
                    "getByPrefix") IN
    /\ CanArrive(p)
    /\ UNCHANGED <<kv, kv0, now, nextId>>
    /\ \/ /\ ~KvHas(kv, ArticleKey(id))
          /\ Respond(p, s, NotFound, <<>>)
       \/ /\ KvHas(kv, ArticleKey(id))
          /\ \E comments \in KvGetByPrefix(kv, CommentPrefix(id)) :
                Respond(p, s, Ok, SortComments(comments))
       \/ Respond(p, s, ServerError, <<>>)

\* GET /comments/:articleId: the scan, the sort, the answer.
ListComments(p, id) ==
    LET s == Called(Arrive(p, "listComments", NoHeader, id, NoId, Malformed),
                    "getByPrefix") IN
    /\ CanArrive(p)
    /\ UNCHANGED <<kv, kv0, now, nextId>>
    /\ \/ \E comments \in KvGetByPrefix(kv, CommentPrefix(id)) :
            Respond(p, s, Ok, SortComments(comments))
       \/ Respond(p, s, ServerError, <<>>)

(***************************************************************************)
(* POST /comments/:articleId                                               *)
(***************************************************************************)
\* CreateCommentGet behind the gate, as the other writing handlers are.
CreateCommentGet_Auth(p, hdr, id, body) ==
    LET s == Arrive(p, "createComment", hdr, id, NoId, body) IN
    /\ CanArrive(p)
    /\ UNCHANGED <<kv, kv0, now, nextId>>
    /\ \/ /\ VerifyAuth(hdr) = Null
          /\ Respond(p, s, Unauthorized, <<>>)
       \/ /\ VerifyAuth(hdr) # Null
          /\ ~body.ok
          /\ Respond(p, s, ServerError, <<>>)
       \/ /\ VerifyAuth(hdr) # Null
          /\ body.ok
          /\ ~CreateCommentValid(body.json)
          /\ Respond(p, s, ValidationFailed, <<>>)
       \/ /\ VerifyAuth(hdr) # Null
          /\ body.ok
          /\ CreateCommentValid(body.json)
          /\ \/ Respond(p, Called(s, "get"), ServerError, <<>>)
             \/ /\ ~KvHas(kv, ArticleKey(id))
                /\ Respond(p, Called(s, "get"), NotFound, <<>>)
             \/ /\ KvHas(kv, ArticleKey(id))
                /\ Continue(p, Called(s, "get"), "commentSet")

\* CreateCommentGet going on to the write whatever the lookup finds.
CreateCommentGet_NoLookup(p, hdr, id, body) ==
    LET s == Arrive(p, "createComment", hdr, id, NoId, body) IN
    /\ CanArrive(p)
    /\ UNCHANGED <<kv, kv0, now, nextId>>
    /\ \/ /\ ~body.ok
          /\ Respond(p, s, ServerError, <<>>)
       \/ /\ body.ok
          /\ ~CreateCommentValid(body.json)
          /\ Respond(p, s, ValidationFailed, <<>>)
       \/ /\ body.ok
          /\ CreateCommentValid(body.json)
          /\ \/ Respond(p, Called(s, "get"), ServerError, <<>>)
             \/ Continue(p, Called(s, "get"), "commentSet")

\* c.req.json(), the validation, then kv.get of the article.
CreateCommentGet(p, hdr, id, body) ==
    LET s == Arrive(p, "createComment", hdr, id, NoId, body) IN
    /\ CanArrive(p)
    /\ UNCHANGED <<kv, kv0, now, nextId>>
    /\ \/ /\ ~body.ok
          /\ Respond(p, s, ServerError, <<>>)
       \/ /\ body.ok
          /\ ~CreateCommentValid(body.json)
          /\ Respond(p, s, ValidationFailed, <<>>)
       \/ /\ body.ok
          /\ CreateCommentValid(body.json)
          /\ \/ Respond(p, Called(s, "get"), ServerError, <<>>)
             \/ /\ ~KvHas(kv, ArticleKey(id))
                /\ Respond(p, Called(s, "get"), NotFound, <<>>)
             \/ /\ KvHas(kv, ArticleKey(id))
                /\ Continue(p, Called(s, "get"), "commentSet")

\* CreateCommentSet with the two ids of the key exchanged.
CreateCommentSet_SwappedKey(p) ==
    LET s == slot[p] IN
    /\ s.pc = "commentSet"
    /\ \E t \in ClockReads(now) :
          LET comment == NewComment(nextId, s.id, s.body.json, t) IN
          /\ now' = t
          /\ nextId' = nextId + 1
          /\ \/ /\ kv' = KvSet(kv, CommentKey(nextId, s.id), comment)
                /\ Respond(p, Wrote(s, "set"), Ok, <<comment>>)
             \/ /\ kv' = kv
                /\ Respond(p, Called(s, "set"), ServerError, <<>>)
    /\ UNCHANGED kv0

\* crypto.randomUUID(), the clock read, then kv.set of the comment.
CreateCommentSet(p) ==
    LET s == slot[p] IN
    /\ s.pc = "commentSet"
    /\ \E t \in ClockReads(now) :
          LET comment == NewComment(nextId, s.id, s.body.json, t) IN
          /\ now' = t
          /\ nextId' = nextId + 1
          /\ \/ /\ kv' = KvSet(kv, CommentKey(s.id, nextId), comment)
                /\ Respond(p, Wrote(s, "set"), Ok, <<comment>>)
             \/ /\ kv' = kv
                /\ Respond(p, Called(s, "set"), ServerError, <<>>)
    /\ UNCHANGED kv0

(***************************************************************************)
(* DELETE /comments/:articleId/:commentId                                  *)
(***************************************************************************)
\* DeleteCommentGet without the 401 return.
DeleteCommentGet_NoAuth(p, hdr, id, cid) ==
    LET s == Arrive(p, "deleteComment", hdr, id, cid, Malformed) IN
    /\ CanArrive(p)
    /\ UNCHANGED <<kv, kv0, now, nextId>>
    /\ \/ Respond(p, Called(s, "get"), ServerError, <<>>)
       \/ /\ ~KvHas(kv, CommentKey(id, cid))
          /\ Respond(p, Called(s, "get"), NotFound, <<>>)
       \/ /\ KvHas(kv, CommentKey(id, cid))
          /\ Continue(p, Called(s, "get"), "commentDel")

\* verifyAuth, then kv.get of the comment.
DeleteCommentGet(p, hdr, id, cid) ==
    LET s == Arrive(p, "deleteComment", hdr, id, cid, Malformed) IN
    /\ CanArrive(p)
    /\ UNCHANGED <<kv, kv0, now, nextId>>
    /\ \/ /\ VerifyAuth(hdr) = Null
          /\ Respond(p, s, Unauthorized, <<>>)
       \/ /\ VerifyAuth(hdr) # Null
          /\ \/ Respond(p, Called(s, "get"), ServerError, <<>>)
             \/ /\ ~KvHas(kv, CommentKey(id, cid))
                /\ Respond(p, Called(s, "get"), NotFound, <<>>)
             \/ /\ KvHas(kv, CommentKey(id, cid))
                /\ Continue(p, Called(s, "get"), "commentDel")

\* DeleteCommentDel removing every comment of the article.
DeleteCommentDel_WholeArticle(p) ==
    LET s == slot[p] IN
    /\ s.pc = "commentDel"
    /\ \/ /\ kv' = [k \in DOMAIN kv \ PrefixKeys(kv, CommentPrefix(s.id)) |-> kv[k]]
          /\ Respond(p, Wrote(s, "del"), Ok, <<>>)
       \/ /\ kv' = kv
          /\ Respond(p, Called(s, "del"), ServerError, <<>>)
    /\ UNCHANGED <<kv0, now, nextId>>

\* kv.del of the comment key, then the answer.
DeleteCommentDel(p) ==
    LET s == slot[p] IN
    /\ s.pc = "commentDel"
    /\ \/ /\ kv' = KvDel(kv, CommentKey(s.id, s.cid))
          /\ Respond(p, Wrote(s, "del"), Ok, <<>>)
       \/ /\ kv' = kv
          /\ Respond(p, Called(s, "del"), ServerError, <<>>)
    /\ UNCHANGED <<kv0, now, nextId>>

(***************************************************************************)
(* The specification.                                                      *)
(***************************************************************************)
Next ==
    \/ \E p \in Procs : ListArticles(p)
    \/ \E p \in Procs, id \in ArticlePathIds : GetArticle(p, id)
    \/ \E p \in Procs, hdr \in AuthHeaders, body \in CreateBodies : CreateArticle(p, hdr, body)
    \/ \E p \in Procs, hdr \in AuthHeaders, id \in ArticlePathIds : UpdateArticleGet(p, hdr, id)
    \/ \E p \in Procs, body \in UpdateBodies : UpdateArticleSet(p, body)
    \/ \E p \in Procs, hdr \in AuthHeaders, id \in ArticlePathIds : DeleteArticleGet(p, hdr, id)
    \/ \E p \in Procs : DeleteArticleDel(p)
    \/ \E p \in Procs : DeleteArticleScan(p)
    \/ \E p \in Procs : DeleteArticleMdel(p)
    \/ \E p \in Procs, id \in ArticlePathIds : ListComments(p, id)
    \/ \E p \in Procs, hdr \in CommentHeaders, id \in ArticlePathIds, body \in CommentBodies :
          CreateCommentGet(p, hdr, id, body)
    \/ \E p \in Procs : CreateCommentSet(p)
    \/ \E p \in Procs, hdr \in AuthHeaders, id \in ArticlePathIds, cid \in CommentPathIds :
          DeleteCommentGet(p, hdr, id, cid)
    \/ \E p \in Procs : DeleteCommentDel(p)

Spec == Init /\ [][Next]_vars

(***************************************************************************)
(* Properties.                                                             *)
(***************************************************************************)
\* The operations behind the gate, and the headers that name no identity:
\* none, one with no token part, a token the provider rejects, a token whose
\* user has no id.
AuthOps == {"createArticle", "updateArticle", "deleteArticle", "deleteComment"}
UnresolvedHeaders ==
    { NoHeader, Header(<<"Bearer">>), Header(<<"Bearer", <<"bad">>>>),
      Header(<<"Bearer", <<"noid">>>>) }

ArticleKeysOf(store) == {k \in DOMAIN store : k[1] = "article"}
CommentKeysOf(store, articleId) ==
    {k \in DOMAIN store : k[1] = "comment" /\ k[2] = articleId}

\* C1: create article, update article, delete article and delete comment sent
\* with a header that names no identity are answered 401 at once, having made
\* no store call, and the store at the answer is the store at the arrival.
C1_UnauthorizedPersistsNothing ==
    \A p \in Procs :
        (slot[p].op \in AuthOps /\ slot[p].hdr \in UnresolvedHeaders) =>
            /\ Done(p)
            /\ slot[p].status = Unauthorized
            /\ slot[p].calls = <<>>
            /\ ~slot[p].wrote
            /\ slot[p].after = slot[p].before

\* Both requests were refused: a create article with no header, and a delete
\* of a stored comment with a rejected token.
C1_Witness ==
    /\ Done("p1") /\ slot["p1"].op = "createArticle"
    /\ slot["p1"].hdr = NoHeader /\ slot["p1"].body = Json(PlainArticle)
    /\ slot["p1"].status = Unauthorized
    /\ Done("p2") /\ slot["p2"].op = "deleteComment"
    /\ slot["p2"].hdr = Header(<<"Bearer", <<"bad">>>>)
    /\ KvHas(slot["p2"].before, CommentKey(slot["p2"].id, slot["p2"].cid))
    /\ slot["p2"].status = Unauthorized
    /\ kv = kv0

\* C2: create comment with a body that has a name and a content, for an
\* article the store holds, is never refused for its header: run alone it
\* ends 200 with the comment stored under comment:<articleId>:<id>, or 500
\* with nothing written, whatever header it carries.
C2_CreateCommentIgnoresHeader ==
    \A p \in Procs :
        (/\ Done(p) /\ slot[p].op = "createComment" /\ slot[p].alone
         /\ slot[p].body.ok /\ Truthy(Field(slot[p].body.json, "name"))
         /\ Truthy(Field(slot[p].body.json, "content"))
         /\ ArticleKey(slot[p].id) \in DOMAIN slot[p].before) =>
            \/ /\ slot[p].status = Ok
               /\ LET comment == slot[p].out[1] IN
                  /\ comment.articleId = slot[p].id
                  /\ comment.name = slot[p].body.json.name
                  /\ comment.content = slot[p].body.json.content
                  /\ slot[p].after =
                        KvSet(slot[p].before, CommentKey(slot[p].id, comment.id), comment)
                  /\ CommentKey(slot[p].id, comment.id) \notin DOMAIN slot[p].before
            \/ /\ slot[p].status = ServerError
               /\ ~slot[p].wrote
               /\ slot[p].after = slot[p].before

\* Two comments were stored, one sent with no header and one with a rejected
\* token.
C2_Witness ==
    /\ Done("p1") /\ slot["p1"].op = "createComment" /\ slot["p1"].status = Ok
    /\ slot["p1"].hdr = NoHeader
    /\ Done("p2") /\ slot["p2"].op = "createComment" /\ slot["p2"].status = Ok
    /\ slot["p2"].hdr = Header(<<"Bearer", <<"bad">>>>)
    /\ Cardinality(DOMAIN kv) = Cardinality(DOMAIN kv0) + 2

\* C3: once delete article for X is answered 200, no other request for X
\* having been in flight beside it, the store holds neither article:X nor a
\* key under comment:X:, however many comments X had; a read that finds this
\* store answers 404 to get article X, lists no article X and lists no
\* comment of X.
C3_DeleteArticleCascades ==
    \A p \in Procs :
        (/\ Done(p) /\ slot[p].op = "deleteArticle" /\ slot[p].status = Ok
         /\ ~slot[p].overlap) =>
            /\ ArticleKey(slot[p].id) \in DOMAIN slot[p].before
            /\ ArticleKey(slot[p].id) \notin DOMAIN slot[p].after
            /\ CommentKeysOf(slot[p].after, slot[p].id) = {}
            /\ LET q == Other(p) IN
               (Done(q) /\ slot[q].before = slot[p].after) =>
                  /\ (slot[q].op = "getArticle" /\ slot[q].id = slot[p].id) =>
                        slot[q].status \in {NotFound, ServerError}
                  /\ (slot[q].op = "listArticles" /\ slot[q].status = Ok) =>
                        \A i \in DOMAIN slot[q].out : slot[q].out[i].id # slot[p].id
                  /\ (slot[q].op = "listComments" /\ slot[q].id = slot[p].id
                         /\ slot[q].status = Ok) =>
                        slot[q].out = <<>>

\* An article with two comments was deleted, and the comments of the article
\* were then listed.
C3_Witness ==
    /\ Done("p1") /\ slot["p1"].op = "deleteArticle" /\ slot["p1"].status = Ok
    /\ ~slot["p1"].overlap
    /\ Cardinality(CommentKeysOf(slot["p1"].before, slot["p1"].id)) = 2
    /\ Done("p2") /\ slot["p2"].op = "listComments" /\ slot["p2"].id = slot["p1"].id
    /\ slot["p2"].before = slot["p1"].after
    /\ slot["p2"].status = Ok

\* C4 (as claimed): create comment for an id with no article:<id> key is
\* answered 404 with the store unchanged, for every body that parses, the
\* store having answered its calls.
C4_AbsentArticleAlwaysNotFound ==
    \A p \in Procs :
        (/\ Done(p) /\ slot[p].op = "createComment"
         /\ ArticleKey(slot[p].id) \notin DOMAIN slot[p].before
         /\ slot[p].body.ok /\ slot[p].status # ServerError) =>
            /\ slot[p].status = NotFound
            /\ slot[p].after = slot[p].before

\* C4 (amended): create comment for an id with no article:<id> key never
\* writes and never succeeds. The body is judged first: a body that is not
\* JSON ends 500 and one whose name or content is empty or missing ends 400,
\* both before any store call; only a body with both ends 404 (or 500 when
\* the lookup fails), after the one lookup.
C4_AbsentArticleNeverStored ==
    \A p \in Procs :
        (/\ Done(p) /\ slot[p].op = "createComment"
         /\ ArticleKey(slot[p].id) \notin DOMAIN slot[p].before) =>
            LET json == slot[p].body.json
                both == Truthy(Field(json, "name")) /\ Truthy(Field(json, "content"))
            IN  /\ slot[p].after = slot[p].before
                /\ ~slot[p].wrote
                /\ slot[p].out = <<>>
                /\ ~slot[p].body.ok =>
                      slot[p].status = ServerError /\ slot[p].calls = <<>>
                /\ (slot[p].body.ok /\ ~both) =>
                      slot[p].status = ValidationFailed /\ slot[p].calls = <<>>
                /\ (slot[p].body.ok /\ both) =>
                      /\ slot[p].status \in {NotFound, ServerError}
                      /\ slot[p].calls = <<"get">>

\* Against an id the store has no article for, a comment with no content was
\* answered 400 and a complete one 404.
C4_Witness ==
    /\ Done("p1") /\ slot["p1"].op = "createComment"
    /\ slot["p1"].body = Json([name |-> <<"N">>])
    /\ slot["p1"].status = ValidationFailed
    /\ Done("p2") /\ slot["p2"].op = "createComment"
    /\ slot["p2"].id = slot["p1"].id
    /\ slot["p2"].body = Json(PlainComment)
    /\ slot["p2"].status = NotFound
    /\ ArticleKey(slot["p1"].id) \notin DOMAIN kv0
    /\ kv = kv0

\* C5 (as claimed): every article in the store has a non-empty title and a
\* non-empty content.
C5_StoredArticlesHaveTitleAndContent ==
    \A k \in ArticleKeysOf(kv) : Truthy(kv[k].title) /\ Truthy(kv[k].content)

\* C6 (as claimed): a request that ran alone and ended 400, 401, 404 or 500
\* left the store as it found it.
C6_ErrorLeavesStoreUnchanged ==
    \A p \in Procs :
        (/\ Done(p) /\ slot[p].alone
         /\ slot[p].status \in {ValidationFailed, Unauthorized, NotFound, ServerError}) =>
            slot[p].after = slot[p].before

\* C7: when delete article for X has been answered 200 and the store still
\* holds a key under comment:X:, that key is the one comment a create comment
\* for X wrote after overlapping the delete: it found article X at its lookup
\* and was answered 200. Both requests made their store calls once each, in
\* the handler's order, and neither came back to the other's key.
C7_OrphanOnlyFromRace ==
    \A p \in Procs :
        (Done(p) /\ slot[p].op = "deleteArticle" /\ slot[p].status = Ok) =>
            LET x == slot[p].id
                q == Other(p)
                orphans == CommentKeysOf(kv, x)
            IN  /\ slot[p].calls \in { <<"get", "del", "getByPrefix">>,
                                       <<"get", "del", "getByPrefix", "mdel">> }
                /\ orphans # {} =>
                      /\ ArticleKey(x) \notin DOMAIN kv
                      /\ Done(q) /\ slot[q].op = "createComment" /\ slot[q].id = x
                      /\ slot[q].status = Ok
                      /\ slot[q].overlap /\ slot[p].overlap
                      /\ slot[q].calls = <<"get", "set">>
                      /\ orphans = {CommentKey(x, slot[q].out[1].id)}
                      /\ kv[CommentKey(x, slot[q].out[1].id)] = slot[q].out[1]

\* The orphan: delete article and create comment for the same article were
\* both answered 200, the article is gone and the comment is stored.
C7_Witness ==
    \E p \in Procs :
        LET q == Other(p) IN
        /\ Done(p) /\ slot[p].op = "deleteArticle" /\ slot[p].status = Ok
        /\ Done(q) /\ slot[q].op = "createComment" /\ slot[q].status = Ok
        /\ slot[q].id = slot[p].id
        /\ ArticleKey(slot[p].id) \in DOMAIN kv0
        /\ ArticleKey(slot[p].id) \notin DOMAIN kv
        /\ CommentKey(slot[p].id, slot[q].out[1].id) \in DOMAIN kv

\* C8: list articles answered 200 returns the values under the article keys
\* of the store it scanned, each once, and no article comes before one
\* created later, whichever order the scan gave.
C8_ListArticlesNewestFirst ==
    \A p \in Procs :
        (Done(p) /\ slot[p].op = "listArticles" /\ slot[p].status = Ok) =>
            LET out == slot[p].out
                stored == {slot[p].before[k] : k \in ArticleKeysOf(slot[p].before)}
            IN  /\ {out[i] : i \in DOMAIN out} = stored
                /\ Len(out) = Cardinality(ArticleKeysOf(slot[p].before))
                /\ \A i, j \in DOMAIN out :
                      GetTime(out[i].createdAt) < GetTime(out[j].createdAt) => j < i

\* A list of three articles, the first created after the other two.
C8_Witness ==
    /\ Done("p1") /\ slot["p1"].op = "createArticle" /\ slot["p1"].status = Ok
    /\ Done("p2") /\ slot["p2"].op = "listArticles" /\ slot["p2"].status = Ok
    /\ Len(slot["p2"].out) = 3
    /\ slot["p2"].out[1] = slot["p1"].out[1]
    /\ GetTime(slot["p2"].out[1].createdAt) > GetTime(slot["p2"].out[2].createdAt)

\* C9 (as claimed): the list of articles answered is the one every order of
\* the scan of that store leads to.
C9_ListArticlesScanOrderFree ==
    \A p \in Procs :
        (Done(p) /\ slot[p].op = "listArticles" /\ slot[p].status = Ok) =>
            \A articles \in KvGetByPrefix(slot[p].before, ArticlePrefix) :
                SortArticles(articles) = slot[p].out

\* C10: list comments for X answered 200 returns the values under the keys
\* comment:X:* of the store it scanned, each once and none of another
\* article, and no comment comes before an older one, whichever order the
\* scan gave.
C10_ListCommentsOldestFirst ==
    \A p \in Procs :
        (Done(p) /\ slot[p].op = "listComments" /\ slot[p].status = Ok) =>
            LET out == slot[p].out
                mine == CommentKeysOf(slot[p].before, slot[p].id)
            IN  /\ {out[i] : i \in DOMAIN out} = {slot[p].before[k] : k \in mine}
                /\ Len(out) = Cardinality(mine)
                /\ \A i \in DOMAIN out : out[i].articleId = slot[p].id
                /\ \A i, j \in DOMAIN out :
                      GetTime(out[i].createdAt) < GetTime(out[j].createdAt) => i < j

\* The two comments of an article listed, the older first, from a store that
\* also holds a comment of another article.
C10_Witness ==
    \E p \in Procs :
        /\ Done(p) /\ slot[p].op = "listComments" /\ slot[p].status = Ok
        /\ Len(slot[p].out) = 2
        /\ GetTime(slot[p].out[1].createdAt) < GetTime(slot[p].out[2].createdAt)
        /\ \E k \in DOMAIN slot[p].before :
              k[1] = "comment" /\ k[2] # slot[p].id

\* C11: an update answered 200 whose body carries a title and nothing else
\* stores, under the article's key, the article it looked up with the title
\* replaced by the body's: content, excerpt, imageUrl, videoUrl and audioUrl
\* are the looked-up ones, which for an update running alone are the ones
\* stored when it arrived.
C11_TitleOnlyUpdateKeepsRest ==
    \A p \in Procs :
        (/\ Done(p) /\ slot[p].op = "updateArticle" /\ slot[p].status = Ok
         /\ DOMAIN slot[p].body.json = {"title"}
         /\ slot[p].body.json.title \notin {Null, Undefined}) =>
            LET old == slot[p].existing
                new == slot[p].after[ArticleKey(slot[p].id)]
            IN  /\ new = slot[p].out[1]
                /\ new.title = slot[p].body.json.title
                /\ new.content = old.content
                /\ new.excerpt = old.excerpt
                /\ new.imageUrl = old.imageUrl
                /\ new.videoUrl = old.videoUrl
                /\ new.audioUrl = old.audioUrl
                /\ slot[p].alone => old = slot[p].before[ArticleKey(slot[p].id)]

\* The article with an excerpt and three media URLs was given the title "B"
\* by an update running alone.
C11_Witness ==
    \E p \in Procs :
        /\ Done(p) /\ slot[p].op = "updateArticle" /\ slot[p].status = Ok
        /\ slot[p].alone
        /\ slot[p].body = Json([title |-> <<"B">>])
        /\ slot[p].existing.title = <<"F">>
        /\ slot[p].existing.imageUrl = <<"img">>
        /\ kv[ArticleKey(slot[p].id)].title = <<"B">>
        /\ kv[ArticleKey(slot[p].id)].imageUrl = <<"img">>

\* C12 (as claimed): an update answered 200, no other request for the article
\* in flight beside it, stores an updatedAt strictly later than the one
\* stored when it arrived.
C12_UpdatedAtStrictlyForward ==
    \A p \in Procs :
        (/\ Done(p) /\ slot[p].op = "updateArticle" /\ slot[p].status = Ok
         /\ ~slot[p].overlap) =>
            GetTime(slot[p].after[ArticleKey(slot[p].id)].updatedAt)
                > GetTime(slot[p].before[ArticleKey(slot[p].id)].updatedAt)

\* C13: every stored article carries the id of its key, and the authorId and
\* createdAt it was created with: those of the found store for an article
\* found there, those its create article returned (the creator's resolved
\* identity) for one created since, whoever updated it and whatever the
\* update's body carried.
C13_IdentityFieldsFrozen ==
    \A k \in ArticleKeysOf(kv) :
        /\ kv[k].id = k[2]
        /\ k \in DOMAIN kv0 =>
              /\ kv[k].authorId = kv0[k].authorId
              /\ kv[k].createdAt = kv0[k].createdAt
        /\ k \notin DOMAIN kv0 =>
              \E p \in Procs :
                  /\ Done(p) /\ slot[p].op = "createArticle" /\ slot[p].status = Ok
                  /\ slot[p].out[1].id = k[2]
                  /\ slot[p].out[1].authorId = VerifyAuth(slot[p].hdr)
                  /\ kv[k].authorId = slot[p].out[1].authorId
                  /\ kv[k].createdAt = slot[p].out[1].createdAt

\* Another user's update, its body carrying id, authorId and createdAt, was
\* answered 200; the article still has its creator and its creation time.
C13_Witness ==
    \E p \in Procs :
        /\ Done(p) /\ slot[p].op = "updateArticle" /\ slot[p].status = Ok
        /\ Field(slot[p].body.json, "authorId") = <<"mallory">>
        /\ VerifyAuth(slot[p].hdr) = <<"bob">>
        /\ kv0[ArticleKey(slot[p].id)].authorId = <<"alice">>
        /\ kv[ArticleKey(slot[p].id)].authorId = <<"alice">>
        /\ kv[ArticleKey(slot[p].id)].updatedAt # kv0[ArticleKey(slot[p].id)].updatedAt

\* C14: the article a create article returns has an id that no article of
\* the found store has (deleted since or not), that no article had when the
\* request arrived and that the other create article did not return, and is
\* stored under article:<that id>; get article answered 200 returns an
\* article with the id asked for, and list articles returns each article
\* once, as stored under its own id.
C14_ArticleIdUniqueAndStable ==
    \A p \in Procs :
        LET q == Other(p) IN
        /\ (Done(p) /\ slot[p].op = "createArticle" /\ slot[p].status = Ok) =>
              LET article == slot[p].out[1] IN
              /\ ArticleKey(article.id) \notin DOMAIN kv0
              /\ ArticleKey(article.id) \notin DOMAIN slot[p].before
              /\ ArticleKey(article.id) \in DOMAIN slot[p].after
              /\ slot[p].after[ArticleKey(article.id)] = article
              /\ (Done(q) /\ slot[q].op = "createArticle" /\ slot[q].status = Ok) =>
                    slot[q].out[1].id # article.id
              /\ ArticleKey(article.id) \in DOMAIN kv =>
                    kv[ArticleKey(article.id)].id = article.id
        /\ (Done(p) /\ slot[p].op = "getArticle" /\ slot[p].status = Ok) =>
              /\ slot[p].out[1].id = slot[p].id
              /\ slot[p].out[1] = slot[p].before[ArticleKey(slot[p].id)]
        /\ (Done(p) /\ slot[p].op = "listArticles" /\ slot[p].status = Ok) =>
              \A i, j \in DOMAIN slot[p].out :
                  /\ ArticleKey(slot[p].out[i].id) \in DOMAIN slot[p].before
                  /\ slot[p].out[i] = slot[p].before[ArticleKey(slot[p].out[i].id)]
                  /\ i # j => slot[p].out[i].id # slot[p].out[j].id

\* An article was created beside two older ones and then read back under the
\* id the creation returned.
C14_Witness ==
    /\ Done("p1") /\ slot["p1"].op = "createArticle" /\ slot["p1"].status = Ok
    /\ Cardinality(ArticleKeysOf(kv0)) = 2
    /\ Done("p2") /\ slot["p2"].op = "getArticle" /\ slot["p2"].status = Ok
    /\ slot["p2"].id = slot["p1"].out[1].id
    /\ slot["p2"].out = slot["p1"].out

\* C15: create article answered 200 with the excerpt omitted, null or empty
\* stores as excerpt the first 150 characters of the content (all of it when
\* shorter) followed by "...": 153 characters for a content of 150 or more;
\* any other excerpt is stored as supplied.
C15_ExcerptDerived ==
    \A p \in Procs :
        (Done(p) /\ slot[p].op = "createArticle" /\ slot[p].status = Ok) =>
            LET json == slot[p].body.json
                content == json.content
                supplied == Field(json, "excerpt")
                stored == slot[p].after[ArticleKey(slot[p].out[1].id)].excerpt
                kept == IF Len(content) < 150 THEN Len(content) ELSE 150
            IN  /\ supplied \in {Undefined, Null, EmptyText} =>
                      /\ Len(stored) = kept + 3
                      /\ \A i \in 1..kept : stored[i] = content[i]
                      /\ \A i \in (kept + 1)..(kept + 3) : stored[i] = "."
                /\ supplied \notin {Undefined, Null, EmptyText} => stored = supplied

\* A content of 151 characters with an empty excerpt gave an excerpt of 153,
\* and "hello world" with no excerpt gave "hello world...".
C15_Witness ==
    /\ Done("p1") /\ slot["p1"].op = "createArticle" /\ slot["p1"].status = Ok
    /\ Len(slot["p1"].body.json.content) = 151
    /\ Field(slot["p1"].body.json, "excerpt") = EmptyText
    /\ Len(kv[ArticleKey(slot["p1"].out[1].id)].excerpt) = 153
    /\ Done("p2") /\ slot["p2"].op = "createArticle" /\ slot["p2"].status = Ok
    /\ slot["p2"].body = Json(PlainArticle)
    /\ kv[ArticleKey(slot["p2"].out[1].id)].excerpt
          = <<"h", "e", "l", "l", "o", " ", "w", "o", "r", "l", "d", ".", ".", ".">>

\* C16 (as claimed): the article a create article stores has createdAt equal
\* to updatedAt.
C16_CreatedAtEqualsUpdatedAt ==
    \A p \in Procs :
        (Done(p) /\ slot[p].op = "createArticle" /\ slot[p].status = Ok) =>
            slot[p].after[ArticleKey(slot[p].out[1].id)].createdAt
                = slot[p].after[ArticleKey(slot[p].out[1].id)].updatedAt

\* C17 (as claimed): when create comment is answered 200, the store it wrote
\* the comment into holds the article the comment names.
C17_ArticlePresentAtWrite ==
    \A p \in Procs :
        (Done(p) /\ slot[p].op = "createComment" /\ slot[p].status = Ok) =>
            ArticleKey(slot[p].id) \in DOMAIN slot[p].after

\* C17 (amended): every stored comment names, in its key and in its
\* articleId, an article that was in the store when the comment's request
\* looked it up: a comment of the found store names an article of the found
\* store, and one written since was returned by a create comment that found
\* the article when it arrived.
C17_ArticlePresentAtLookup ==
    \A k \in DOMAIN kv :
        k[1] = "comment" =>
            /\ kv[k].articleId = k[2]
            /\ kv[k].id = k[3]
            /\ k \in DOMAIN kv0 => ArticleKey(k[2]) \in DOMAIN kv0
            /\ k \notin DOMAIN kv0 =>
                  \E p \in Procs :
                      /\ Done(p) /\ slot[p].op = "createComment"
                      /\ slot[p].status = Ok
                      /\ slot[p].out[1] = kv[k]
                      /\ slot[p].id = k[2]
                      /\ ArticleKey(k[2]) \in DOMAIN slot[p].before

\* A comment was written after its article had been deleted: the article was
\* there when the request arrived and is not in the store the comment went
\* into.
C17_Witness ==
    \E p \in Procs :
        /\ Done(p) /\ slot[p].op = "createComment" /\ slot[p].status = Ok
        /\ ArticleKey(slot[p].id) \in DOMAIN slot[p].before
        /\ ArticleKey(slot[p].id) \notin DOMAIN slot[p].after
        /\ CommentKey(slot[p].id, slot[p].out[1].id) \in DOMAIN kv

C19_InvalidNeverPersisted ==
    \A p \in Procs :
        /\ (/\ slot[p].op = "createArticle" /\ VerifyAuth(slot[p].hdr) # Null
            /\ slot[p].body.ok
            /\ \/ Field(slot[p].body.json, "title") \in {Undefined, Null, EmptyText}
               \/ Field(slot[p].body.json, "content") \in {Undefined, Null, EmptyText}) =>
              /\ Done(p) /\ slot[p].status = ValidationFailed
              /\ slot[p].calls = <<>> /\ ~slot[p].wrote
              /\ slot[p].after = slot[p].before
        /\ (/\ slot[p].op = "createComment" /\ slot[p].body.ok
            /\ \/ Field(slot[p].body.json, "name") \in {Undefined, Null, EmptyText}
               \/ Field(slot[p].body.json, "content") \in {Undefined, Null, EmptyText}) =>
              /\ Done(p) /\ slot[p].status = ValidationFailed
              /\ slot[p].calls = <<>> /\ ~slot[p].wrote
              /\ slot[p].after = slot[p].before

\* An authorized create article with no content and a create comment with an
\* empty name were both answered 400, the store as found.
C19_Witness ==
    /\ Done("p1") /\ slot["p1"].op = "createArticle"
    /\ VerifyAuth(slot["p1"].hdr) = <<"alice">>
    /\ slot["p1"].body = Json([title |-> <<"A">>])
    /\ slot["p1"].status = ValidationFailed
    /\ Done("p2") /\ slot["p2"].op = "createComment"
    /\ slot["p2"].body = Json([name |-> EmptyText, content |-> <<"hi">>])
    /\ ArticleKey(slot["p2"].id) \in DOMAIN kv0
    /\ slot["p2"].status = ValidationFailed
    /\ kv = kv0

\* C20: a gated operation is answered 401 exactly when verifyAuth resolves no
\* identity, and then it has made no store call; so every gated request that
\* reached the store, and every one answered 400 or 404, had a resolved
\* identity, and an unresolved one is answered 401 even with a body that
\* would be invalid or a key the store does not hold.
C20_UnauthorizedFirst ==
    \A p \in Procs :
        slot[p].op \in AuthOps =>
            /\ Done(p) => (slot[p].status = Unauthorized <=> VerifyAuth(slot[p].hdr) = Null)
            /\ slot[p].calls # <<>> => VerifyAuth(slot[p].hdr) # Null
            /\ InFlight(p) => VerifyAuth(slot[p].hdr) # Null
            /\ (Done(p) /\ slot[p].status \in {ValidationFailed, NotFound}) =>
                  VerifyAuth(slot[p].hdr) # Null

\* A create article with an empty title and a delete article of an absent
\* id, neither with a resolvable identity, were both answered 401.
C20_Witness ==
    /\ Done("p1") /\ slot["p1"].op = "createArticle"
    /\ VerifyAuth(slot["p1"].hdr) = Null
    /\ slot["p1"].body = Json([title |-> EmptyText, content |-> HelloWorld])
    /\ slot["p1"].status = Unauthorized
    /\ Done("p2") /\ slot["p2"].op = "deleteArticle"
    /\ VerifyAuth(slot["p2"].hdr) = Null
    /\ ArticleKey(slot["p2"].id) \notin DOMAIN slot["p2"].before
    /\ slot["p2"].status = Unauthorized
    /\ slot["p2"].calls = <<>>

\* C21: delete comment by a resolved caller, running alone: when the key
\* comment:<articleId>:<commentId> is absent it is answered 404 (500 when the
\* lookup fails) with the store unchanged; when the key is present and the
\* answer is 200 the store has lost that key and nothing else, every other
\* key keeping its value, whether the article is stored or not; answered
\* 500, the store is unchanged.
C21_DeleteCommentRemovesOneKey ==
    \A p \in Procs :
        (/\ Done(p) /\ slot[p].op = "deleteComment" /\ slot[p].alone
         /\ slot[p].hdr \notin UnresolvedHeaders) =>
            LET key == CommentKey(slot[p].id, slot[p].cid)
                before == slot[p].before
                after == slot[p].after
            IN  /\ key \notin DOMAIN before =>
                      /\ slot[p].status \in {NotFound, ServerError}
                      /\ after = before
                /\ key \in DOMAIN before =>
                      /\ slot[p].status \in {Ok, ServerError}
                      /\ slot[p].status = ServerError => after = before
                      /\ slot[p].status = Ok =>
                            /\ DOMAIN after = DOMAIN before \ {key}
                            /\ \A k \in DOMAIN after : after[k] = before[k]

\* A comment whose article is no longer stored was deleted; the article's
\* other comment is still there.
C21_Witness ==
    \E p \in Procs :
        /\ Done(p) /\ slot[p].op = "deleteComment" /\ slot[p].status = Ok
        /\ slot[p].alone
        /\ ArticleKey(slot[p].id) \notin DOMAIN slot[p].before
        /\ CommentKey(slot[p].id, slot[p].cid) \in DOMAIN slot[p].before
        /\ CommentKey(slot[p].id, slot[p].cid) \notin DOMAIN kv
        /\ CommentKeysOf(kv, slot[p].id) # {}

\* C22 (as claimed): each status reports one kind of failure: 500 a store
\* call that failed, 401 an unresolved credential on a gated operation, 400
\* a parsed body without a required field, 404 a lookup that found nothing.
C22_OneStatusPerFailureKind ==
    \A p \in Procs :
        Done(p) =>
            /\ slot[p].status \in {Ok, ValidationFailed, Unauthorized, NotFound, ServerError}
            /\ slot[p].status = ServerError => slot[p].calls # <<>>
            /\ slot[p].status = Unauthorized =>
                  slot[p].op \in AuthOps /\ slot[p].hdr \in UnresolvedHeaders
            /\ slot[p].status = ValidationFailed =>
                  /\ slot[p].op \in {"createArticle", "createComment"}
                  /\ slot[p].body.ok /\ slot[p].calls = <<>>
            /\ slot[p].status = NotFound =>
                  slot[p].calls = <<"get">> /\ ~slot[p].wrote

\* C23: a gated request passes the gate exactly when its Authorization
\* header has a second part, the provider answers that token without error
\* and the answer's user has an id; with no header, a header with no token
\* part, a rejected token or a user without id it is answered 401.
C23_GateResolvesOnlyAcceptedTokens ==
    \A p \in Procs :
        (slot[p].op \in AuthOps /\ slot[p].pc # "idle") =>
            LET hdr == slot[p].hdr
                passed == InFlight(p) \/ slot[p].status # Unauthorized
                accepted == /\ hdr.present
                            /\ Len(hdr.parts) >= 2
                            /\ ~GetUser(hdr.parts[2]).error
                            /\ GetUser(hdr.parts[2]).userId # Undefined
            IN  /\ passed <=> accepted
                /\ (passed /\ slot[p].op = "createArticle" /\ slot[p].status = Ok) =>
                      slot[p].out[1].authorId = GetUser(hdr.parts[2]).userId

\* A rejected token was refused and an accepted one created an article in
\* its user's name.
C23_Witness ==
    /\ Done("p1") /\ slot["p1"].op = "createArticle"
    /\ slot["p1"].hdr = Header(<<"Bearer", <<"noid">>>>)
    /\ slot["p1"].body = Json(PlainArticle)
    /\ slot["p1"].status = Unauthorized
    /\ Done("p2") /\ slot["p2"].op = "createArticle"
    /\ slot["p2"].hdr = Header(<<"Bearer", <<"t2">>>>)
    /\ slot["p2"].body = Json(PlainArticle)
    /\ slot["p2"].status = Ok
    /\ slot["p2"].out[1].authorId = <<"bob">>

C25_KeySpace ==
    \A k \in DOMAIN kv :
        \/ /\ Len(k) = 2 /\ k[1] = "article"
           /\ DOMAIN kv[k] = {"id", "title", "content", "excerpt", "imageUrl",
                              "videoUrl", "audioUrl", "authorId", "createdAt",
                              "updatedAt"}
           /\ kv[k].id = k[2]
        \/ /\ Len(k) = 3 /\ k[1] = "comment"
           /\ DOMAIN kv[k] = {"id", "articleId", "name", "content", "createdAt"}
           /\ kv[k].articleId = k[2]
           /\ kv[k].id = k[3]

\* An article was created, then updated; both keys of the found store's kind
\* and the new one are in the store.
C25_Witness ==
    /\ Done("p1") /\ slot["p1"].op = "createArticle" /\ slot["p1"].status = Ok
    /\ Done("p2") /\ slot["p2"].op = "updateArticle" /\ slot["p2"].status = Ok
    /\ slot["p2"].id = slot["p1"].out[1].id
    /\ ArticleKey(slot["p2"].id) \in DOMAIN kv
    /\ \E k \in DOMAIN kv : k[1] = "comment"

\* C26 (as claimed): once delete article for X has been answered 200, the
\* store does not hold article:X.
C26_DeletedArticleStaysDeleted ==
    \A p \in Procs :
        (Done(p) /\ slot[p].op = "deleteArticle" /\ slot[p].status = Ok) =>
            ArticleKey(slot[p].id) \notin DOMAIN kv

\* C27 (as claimed): when an update with only a title and an update with
\* only a content, for the same article, have both been answered 200, the
\* stored article has that title and that content.
C27_NoLostUpdate ==
    \A p \in Procs :
        LET q == Other(p) IN
        (/\ Done(p) /\ slot[p].op = "updateArticle" /\ slot[p].status = Ok
         /\ Done(q) /\ slot[q].op = "updateArticle" /\ slot[q].status = Ok
         /\ slot[p].id = slot[q].id
         /\ slot[p].body = Json([title |-> <<"B">>])
         /\ slot[q].body = Json([content |-> <<"c">>])) =>
            /\ kv[ArticleKey(slot[p].id)].title = <<"B">>
            /\ kv[ArticleKey(slot[p].id)].content = <<"c">>

\* C28: a delete article for X answered 200 after running alone leaves every
\* key that is neither article:X nor under comment:X: in the store with the
\* value it had, and adds no key.
C28_DeleteArticleFrame ==
    \A p \in Procs :
        (/\ Done(p) /\ slot[p].op = "deleteArticle" /\ slot[p].status = Ok
         /\ slot[p].alone) =>
            LET x == slot[p].id
                own == {ArticleKey(x)} \cup CommentKeysOf(slot[p].before, x)
            IN  /\ DOMAIN slot[p].after \subseteq DOMAIN slot[p].before
                /\ \A k \in DOMAIN slot[p].before \ own :
                      /\ k \in DOMAIN slot[p].after
                      /\ slot[p].after[k] = slot[p].before[k]

\* The article with two comments was deleted; the other article and its
\* comment are in the store as they were found.
C28_Witness ==
    \E p \in Procs :
        /\ Done(p) /\ slot[p].op = "deleteArticle" /\ slot[p].status = Ok
        /\ slot[p].alone
        /\ Cardinality(CommentKeysOf(slot[p].before, slot[p].id)) = 2
        /\ \E k \in DOMAIN slot[p].after :
              k[1] = "comment" /\ k[2] # slot[p].id /\ slot[p].after[k] = kv0[k]
        /\ \E k \in DOMAIN slot[p].after :
              k[1] = "article" /\ slot[p].after[k] = kv0[k]

\* C29: list articles, get article and list comments make one reading store
\* call and leave the store as it was when they arrived, whatever the
\* answer; list comments never answers 404: for an id with no article it
\* answers 200 with the comments stored under the id's prefix, none or the
\* orphaned ones (500 when the scan fails).
C29_ReadsLeaveStore ==
    \A p \in Procs :
        (Done(p) /\ slot[p].op \in {"listArticles", "getArticle", "listComments"}) =>
            /\ slot[p].after = slot[p].before
            /\ ~slot[p].wrote
            /\ slot[p].calls \in {<<"get">>, <<"getByPrefix">>}
            /\ slot[p].op = "getArticle" =>
                  (slot[p].status = NotFound =>
                      ArticleKey(slot[p].id) \notin DOMAIN slot[p].before)
            /\ slot[p].op = "listComments" =>
                  /\ slot[p].status \in {Ok, ServerError}
                  /\ (slot[p].status = Ok
                        /\ ArticleKey(slot[p].id) \notin DOMAIN slot[p].before) =>
                        Len(slot[p].out)
                            = Cardinality(CommentKeysOf(slot[p].before, slot[p].id))

\* The comments of an id with no article were listed: two orphaned comments,
\* answered 200.
C29_Witness ==
    \E p \in Procs :
        /\ Done(p) /\ slot[p].op = "listComments" /\ slot[p].status = Ok
        /\ ArticleKey(slot[p].id) \notin DOMAIN slot[p].before
        /\ Len(slot[p].out) = 2
        /\ kv = slot[p].before

\* C30: what update article, delete article and delete comment do for a
\* resolved caller is fixed by the store and the request, the caller's
\* identity not read: running alone, with the target key absent the answer
\* is 404 and with it present 200 (500 when a store call or the body's
\* parsing fails), whether or not the caller is the article's author; on 200
\* the store is the one the request alone determines; and the same update
\* answered 200 twice in a row returns the same article but for updatedAt,
\* whoever sent each.
C30_IdentityNotConsulted ==
    \A p \in Procs :
        LET q == Other(p)
            target == IF slot[p].op = "deleteComment"
                      THEN CommentKey(slot[p].id, slot[p].cid)
                      ELSE ArticleKey(slot[p].id)
            before == slot[p].before
            after == slot[p].after
        IN
        (/\ Done(p) /\ slot[p].alone
         /\ slot[p].op \in {"updateArticle", "deleteArticle", "deleteComment"}
         /\ slot[p].hdr \notin UnresolvedHeaders) =>
            /\ target \notin DOMAIN before =>
                  slot[p].status \in {NotFound, ServerError} /\ after = before
            /\ target \in DOMAIN before => slot[p].status \in {Ok, ServerError}
            /\ (slot[p].status = Ok /\ slot[p].op = "updateArticle") =>
                  /\ DOMAIN after = DOMAIN before
                  /\ \A k \in DOMAIN before \ {target} : after[k] = before[k]
                  /\ after[target] = slot[p].out[1]
                  /\ after[target].authorId = before[target].authorId
            /\ (slot[p].status = Ok /\ slot[p].op = "deleteArticle") =>
                  DOMAIN after = DOMAIN before
                                    \ ({target} \cup CommentKeysOf(before, slot[p].id))
            /\ (slot[p].status = Ok /\ slot[p].op = "deleteComment") =>
                  DOMAIN after = DOMAIN before \ {target}
            /\ (/\ slot[p].status = Ok /\ slot[p].op = "updateArticle"
                /\ Done(q) /\ slot[q].op = "updateArticle" /\ slot[q].status = Ok
                /\ slot[q].id = slot[p].id /\ slot[q].body = slot[p].body
                /\ slot[q].before = after) =>
                  [slot[q].out[1] EXCEPT !.updatedAt = slot[p].out[1].updatedAt]
                      = slot[p].out[1]

\* The article's author and then another user sent the same update of the
\* article; both were answered 200 with the same article but for updatedAt.
C30_Witness ==
    /\ Done("p1") /\ slot["p1"].op = "updateArticle" /\ slot["p1"].status = Ok
    /\ slot["p1"].body = Json([title |-> <<"B">>])
    /\ VerifyAuth(slot["p1"].hdr) = slot["p1"].before[ArticleKey(slot["p1"].id)].authorId
    /\ Done("p2") /\ slot["p2"].op = "updateArticle" /\ slot["p2"].status = Ok
    /\ slot["p2"].body = slot["p1"].body
    /\ slot["p2"].id = slot["p1"].id
    /\ slot["p2"].before = slot["p1"].after
    /\ VerifyAuth(slot["p2"].hdr) # Null
    /\ VerifyAuth(slot["p2"].hdr) # VerifyAuth(slot["p1"].hdr)
    /\ slot["p2"].out[1].title = slot["p1"].out[1].title
    /\ slot["p2"].out[1].authorId = VerifyAuth(slot["p1"].hdr)

====
